---- MODULE Spec2Model ----
(***************************************************************************)
(* A model of axlearn/common/input_base.py (partition_by_path_rank and     *)
(* Input.dispatch_global_batch) and of _time_call in                       *)
(* axlearn/common/flash_attention/tpu_attention_benchmark.py.              *)
(*                                                                         *)
(* Three specifications share the variables:                               *)
(*   SpecPartition  partition_by_path_rank and the fn it returns           *)
(*   SpecTime       _time_call                                             *)
(*   SpecDispatch   Input.__init__ and Input.dispatch_global_batch         *)
(***************************************************************************)
EXTENDS Integers, Sequences, FiniteSets, TLC

VARIABLES
    pc,                      \* position of the modelled caller
    path_rank_to_partition,  \* argument of partition_by_path_rank, in insertion order
    compiled,                \* the dict `compiled` closed over by fn, in insertion order
    mesh,                    \* thread_resources.env.physical_mesh, as its size (0: empty)
    input_batch,             \* argument of fn: leaves in jax.tree.map order
    result,                  \* outcome of fn: status, returned batch, constraint calls
    tc,                      \* _time_call: its frame and what an observer sees of it
    dp                       \* Input and dispatch_global_batch: fields and call log

vars == <<pc, path_rank_to_partition, compiled, mesh, input_batch, result, tc, dp>>

(***************************************************************************)
(* Bounds.                                                                 *)
(***************************************************************************)
MaxRules == 2
MaxLeaves == 2
MaxIters == 3
MaxDur == 2

\* An Optional value: <<>> is None, <<x>> is x.
NoneVal == <<>>
Some(x) == <<x>>
Opt(S) == {NoneVal} \cup {Some(x) : x \in S}

(***************************************************************************)
(* Paths and regular expressions.  A path is a sequence of characters; a   *)
(* regex is a sequence of tokens, each a literal character or ".*".        *)
(***************************************************************************)
\* Leaf paths as tree_paths produces them, in sorted (dict flattening) order.
PathOrder == << <<"a">>, <<"a", "b">>, <<"b", "a">> >>
Paths == {PathOrder[i] : i \in 1..Len(PathOrder)}
Regexes == { <<"a">>, <<"a", ".*">> }
\* The regexes that also occur as keys in already compiled (re.Pattern) form.
Patterns == { <<"a">> }
Ranks == 1..2
MeshSizes == 0..2
Specs == {"UNCONSTRAINED", "None", "data"}

RECURSIVE FullMatch(_, _)
\* re.fullmatch(regex, path): the regex must consume the whole path.
FullMatch(regex, path) ==
    IF regex = <<>> THEN path = <<>>
    ELSE IF Head(regex) = ".*"
         THEN \E k \in 0..Len(path) :
                  FullMatch(Tail(regex), SubSeq(path, k + 1, Len(path)))
         ELSE /\ path # <<>>
              /\ Head(path) = Head(regex)
              /\ FullMatch(Tail(regex), Tail(path))

\* re.match(regex, path): the regex must consume a prefix of the path.  This
\* and SearchMatch are what maybe_constrain does not use.
PrefixMatch(regex, path) ==
    \E k \in 0..Len(path) : FullMatch(regex, SubSeq(path, 1, k))

\* re.search(regex, path): the regex must consume a substring of the path.
SearchMatch(regex, path) ==
    \E i \in 1..(Len(path) + 1) : PrefixMatch(regex, SubSeq(path, i, Len(path)))

\* The call re.fullmatch(path_regex, path) of maybe_constrain.
ReMatch(regex, path) == FullMatch(regex, path)

(***************************************************************************)
(* partition_by_path_rank                                                  *)
(***************************************************************************)
\* A key of path_rank_to_partition: PathAndRank(path, rank).  `form` tells a
\* str regex from an already compiled re.Pattern: the two are different dict
\* keys, and re.compile maps both to the same (equal, equally hashed) Pattern.
PathForms == {[path |-> NoneVal, form |-> "None"]}
             \cup {[path |-> Some(r), form |-> "str"] : r \in Regexes}
             \cup {[path |-> Some(r), form |-> "Pattern"] : r \in Patterns}
Rules == {[path |-> p.path, form |-> p.form, rank |-> k, spec |-> s] :
            p \in PathForms, k \in Opt(Ranks), s \in Specs}

RuleKey(rule) == <<rule.path, rule.form, rule.rank>>

\* Dicts of at most MaxRules entries, as sequences in insertion order.
RuleTables ==
    {t \in UNION {[1..n -> Rules] : n \in 0..MaxRules} :
        \A i, j \in 1..Len(t) : i # j => RuleKey(t[i]) # RuleKey(t[j])}

\* compiled[(regex, rank)] = spec: a new key is appended, an existing key keeps
\* its position and takes the new value.
DictSet(d, regex, rank, spec) ==
    IF \E i \in 1..Len(d) : d[i].regex = regex /\ d[i].rank = rank
    THEN [i \in 1..Len(d) |->
            IF d[i].regex = regex /\ d[i].rank = rank
            THEN [d[i] EXCEPT !.spec = spec] ELSE d[i]]
    ELSE Append(d, [regex |-> regex, rank |-> rank, spec |-> spec])

RECURSIVE CompileFrom(_, _, _)
CompileFrom(table, i, d) ==
    IF i > Len(table) THEN d
    ELSE CompileFrom(table, i + 1,
                     DictSet(d, table[i].path, table[i].rank, table[i].spec))

\* The loop building `compiled`.
Compile(table) == CompileFrom(table, 1, <<>>)

\* The condition under which maybe_constrain does not `continue`.
Matches(regex, rank, path, ndim) ==
    /\ (rank = NoneVal \/ Some(ndim) = rank)
    /\ (regex = NoneVal \/ ReMatch(regex[1], path))

\* What a matching rule does to the value: the with_sharding_constraint calls.
ApplySpec(partition_spec) ==
    IF partition_spec # "UNCONSTRAINED" THEN <<partition_spec>> ELSE <<>>

\* The fall-through of maybe_constrain when no rule matches: it raises.  The
\* first definition is the slip of returning the value as it is instead.
NoRuleMatchedSilently == [raised |-> FALSE, constraints |-> <<>>]
NoRuleMatched == [raised |-> TRUE, constraints |-> <<>>]

RECURSIVE MaybeConstrainFrom(_, _, _, _)
MaybeConstrainFrom(d, i, path, ndim) ==
    IF i > Len(d) THEN NoRuleMatched
    ELSE IF ~Matches(d[i].regex, d[i].rank, path, ndim)
         THEN MaybeConstrainFrom(d, i + 1, path, ndim)
         ELSE [raised |-> FALSE, constraints |-> ApplySpec(d[i].spec)]

MaybeConstrain(d, path, ndim) == MaybeConstrainFrom(d, 1, path, ndim)

\* `mesh.empty or mesh.size == 1`.  The first definition is the slip of
\* testing mesh.empty alone.
NotInMeshEmptyOnly(m) == m = 0
NotInMesh(m) == m = 0 \/ m = 1

Leaf(path, ndim, constraints) ==
    [path |-> path, ndim |-> ndim, constraints |-> constraints]

\* Batches: non-empty dicts of at most MaxLeaves leaves, flattened in key order.
Batches ==
    {b \in UNION {[1..n -> [path : Paths, ndim : Ranks]] : n \in 1..MaxLeaves} :
        \A i, j \in 1..Len(b) : i < j =>
            \E p, q \in 1..Len(PathOrder) :
                p < q /\ PathOrder[p] = b[i].path /\ PathOrder[q] = b[j].path}

RECURSIVE TreeMap(_, _, _, _, _)
\* jax.tree.map(maybe_constrain, ...): leaf by leaf, stopping at the first raise.
TreeMap(d, batch, i, out, calls) ==
    IF i > Len(batch)
    THEN [status |-> "returned", batch |-> out, calls |-> calls]
    ELSE LET r == MaybeConstrain(d, batch[i].path, batch[i].ndim) IN
         IF r.raised
         THEN [status |-> "ValueError", batch |-> <<>>, calls |-> calls]
         ELSE TreeMap(d, batch, i + 1,
                      Append(out, Leaf(batch[i].path, batch[i].ndim, r.constraints)),
                      calls \o [k \in 1..Len(r.constraints) |->
                                  [path |-> batch[i].path, spec |-> r.constraints[k]]])

Unconstrained(batch) ==
    [i \in 1..Len(batch) |-> Leaf(batch[i].path, batch[i].ndim, <<>>)]

\* The body of fn.
FnBody(d, m, batch) ==
    IF NotInMesh(m)
    THEN [status |-> "returned", batch |-> Unconstrained(batch), calls |-> <<>>]
    ELSE TreeMap(d, batch, 1, <<>>, <<>>)

NoResult == [status |-> "none", batch |-> <<>>, calls |-> <<>>]
TcIdle == [pc |-> "idle"]
DpIdle == [pc |-> "idle"]

InitPartition ==
    /\ pc = "new"
    /\ path_rank_to_partition \in RuleTables
    /\ compiled = <<>>
    /\ mesh = 0
    /\ input_batch = <<>>
    /\ result = NoResult
    /\ tc = TcIdle
    /\ dp = DpIdle

\* partition_by_path_rank(path_rank_to_partition) returns fn.
PartitionByPathRank ==
    /\ pc = "new"
    /\ compiled' = Compile(path_rank_to_partition)
    /\ pc' = "ready"
    /\ UNCHANGED <<path_rank_to_partition, mesh, input_batch, result, tc, dp>>

\* fn(input_batch) under a physical mesh of size m.  fn writes nothing that a
\* later call reads, so one call per behaviour covers every call.
Fn ==
    /\ pc = "ready"
    /\ \E m \in MeshSizes, batch \in Batches :
        /\ mesh' = m
        /\ input_batch' = batch
        /\ result' = FnBody(compiled, m, batch)
    /\ pc' = "called"
    /\ UNCHANGED <<path_rank_to_partition, compiled, tc, dp>>

NextPartition == PartitionByPathRank \/ Fn

SpecPartition == InitPartition /\ [][NextPartition]_vars

(***************************************************************************)
(* Claims about partition_by_path_rank, stated over the rules as the       *)
(* caller wrote them (path_rank_to_partition, in insertion order).         *)
(***************************************************************************)
\* A rule matches a leaf iff (rank is None or ndim == rank) and (path_regex is
\* None or the regex full-matches the whole path).
RuleMatches(rule, leaf) ==
    /\ (rule.rank = NoneVal \/ rule.rank = Some(leaf.ndim))
    /\ (rule.path = NoneVal \/ FullMatch(rule.path[1], leaf.path))

MatchingRules(leaf) ==
    {i \in 1..Len(path_rank_to_partition) : RuleMatches(path_rank_to_partition[i], leaf)}

\* Index of the first rule of path_rank_to_partition matching the leaf; 0 if none.
FirstRule(leaf) ==
    IF MatchingRules(leaf) = {} THEN 0
    ELSE CHOOSE i \in MatchingRules(leaf) : \A j \in MatchingRules(leaf) : i <= j

InMeshCall == pc = "called" /\ ~(mesh = 0 \/ mesh = 1)
OutOfMeshCall == pc = "called" /\ (mesh = 0 \/ mesh = 1)

\* The specs of the with_sharding_constraint calls made on the leaf at `path`.
CallsOn(path) ==
    LET on == SelectSeq(result.calls, LAMBDA c : c.path = path)
    IN  [k \in 1..Len(on) |-> on[k].spec]

\* No two keys of path_rank_to_partition compile to the same (regex, rank).
KeysStayDistinct == Len(compiled) = Len(path_rank_to_partition)

\* C1: inside a mesh of more than one device, every leaf of the returned batch
\* carries the constraint of the first rule of path_rank_to_partition that
\* matches it (nothing if that rule is UNCONSTRAINED), and of no later rule.
C1_FirstMatchingRule ==
    (InMeshCall /\ result.status = "returned") =>
        \A i \in 1..Len(input_batch) :
            LET k == FirstRule(input_batch[i]) IN
            /\ k > 0
            /\ result.batch[i].path = input_batch[i].path
            /\ result.batch[i].constraints =
                 IF path_rank_to_partition[k].spec = "UNCONSTRAINED"
                 THEN <<>> ELSE <<path_rank_to_partition[k].spec>>

\* C1, restricted to rule tables whose keys stay distinct once compiled.
C1_FirstMatchingRule_DistinctKeys == KeysStayDistinct => C1_FirstMatchingRule

\* C2: inside a mesh of more than one device, a batch with a leaf that matches
\* no rule makes fn raise ValueError and return no batch.
C2_UnmatchedLeafRaises ==
    (InMeshCall /\ \E i \in 1..Len(input_batch) : FirstRule(input_batch[i]) = 0) =>
        /\ result.status = "ValueError"
        /\ result.batch = <<>>

\* A call inside a mesh where the first leaf is constrained and the second
\* matches no rule: ValueError after one with_sharding_constraint call.
C2_Witness ==
    /\ InMeshCall
    /\ Len(input_batch) = 2
    /\ FirstRule(input_batch[1]) > 0
    /\ FirstRule(input_batch[2]) = 0
    /\ Len(result.calls) = 1
    /\ result.status = "ValueError"

\* C3: outside a mesh (empty, or of size 1) fn returns the input batch as it
\* got it, calls with_sharding_constraint on no leaf and raises nothing, also
\* for leaves that match no rule.
C3_NoOpOutsideMesh ==
    OutOfMeshCall =>
        /\ result.status = "returned"
        /\ result.calls = <<>>
        /\ Len(result.batch) = Len(input_batch)
        /\ \A i \in 1..Len(input_batch) :
              result.batch[i] = Leaf(input_batch[i].path, input_batch[i].ndim, <<>>)

\* A call under a mesh of size 1, with rules, on a batch with a leaf that
\* matches none of them and a leaf that matches a constraining one.
C3_Witness ==
    /\ pc = "called"
    /\ mesh = 1
    /\ Len(input_batch) = 2
    /\ FirstRule(input_batch[1]) = 0
    /\ FirstRule(input_batch[2]) > 0
    /\ path_rank_to_partition[FirstRule(input_batch[2])].spec = "data"
    /\ result.status = "returned"

\* C4: when the first rule matching a leaf maps to UNCONSTRAINED the leaf comes
\* back with no with_sharding_constraint call; when it maps to any other spec
\* (None included) with_sharding_constraint is called exactly once on the
\* leaf, with that spec.
C4_UnconstrainedOrOnce ==
    (InMeshCall /\ result.status = "returned") =>
        \A i \in 1..Len(input_batch) :
            LET k == FirstRule(input_batch[i]) IN
            k > 0 =>
                IF path_rank_to_partition[k].spec = "UNCONSTRAINED"
                THEN CallsOn(input_batch[i].path) = <<>>
                ELSE CallsOn(input_batch[i].path) = <<path_rank_to_partition[k].spec>>

\* C4, restricted to rule tables whose keys stay distinct once compiled.
C4_UnconstrainedOrOnce_DistinctKeys == KeysStayDistinct => C4_UnconstrainedOrOnce

\* The calls C1 and C4 are about happen: an UNCONSTRAINED first match followed
\* by a later matching rule, beside a leaf replicated by a None spec.
C14_Reached ==
    /\ InMeshCall
    /\ KeysStayDistinct
    /\ result.status = "returned"
    /\ Len(input_batch) = 2
    /\ Cardinality(MatchingRules(input_batch[1])) = 2
    /\ path_rank_to_partition[FirstRule(input_batch[1])].spec = "UNCONSTRAINED"
    /\ FirstRule(input_batch[2]) = 2
    /\ path_rank_to_partition[2].spec = "None"

(***************************************************************************)
(* _time_call(fn, num_iters)                                               *)
(*                                                                         *)
(* tc is the frame of one call: num_iters, the loop counter i, tic and toc,*)
(* and the clock `now` that time.perf_counter reads.  fn() dispatches a    *)
(* computation (pending) and block_until_ready waits for it, which is      *)
(* where the clock advances by the computation's duration.  calls, log,    *)
(* warm and timed record what happened: the number of fn() calls, the      *)
(* order of events, and the durations of the warmup and of the timed calls.*)
(***************************************************************************)
IterChoices == -1..MaxIters
Durations == 1..MaxDur

TimeCallEntry(n) ==
    [pc |-> "warmup_call", num_iters |-> n, i |-> 0, now |-> 0, tic |-> 0, toc |-> 0,
     pending |-> 0, calls |-> 0, warm |-> 0, timed |-> 0, log |-> <<>>, ret |-> NoneVal]

\* fn(): dispatches one computation.
TimeFn(t) ==
    [t EXCEPT !.calls = @ + 1, !.pending = @ + 1, !.log = Append(@, "call")]

\* .block_until_ready(): returns once the computation is done, d later.
BlockUntilReady(t, d) ==
    [t EXCEPT !.pending = @ - 1, !.now = @ + d, !.log = Append(@, "ready")]

\* tic = time.perf_counter(), read after the warmup is ready.  The first
\* definition is the slip of reading it before the warmup statement.
TicBeforeWarmup(t) == [t EXCEPT !.tic = t.now - t.warm, !.log = Append(@, "tic")]
Tic(t) == [t EXCEPT !.tic = t.now, !.log = Append(@, "tic")]

\* toc = time.perf_counter()
Toc(t) == [t EXCEPT !.toc = t.now, !.log = Append(@, "toc")]

\* `for _ in range(num_iters)` has no further item.
RangeExhausted(t) == t.i >= t.num_iters

\* (toc - tic) / num_iters, as the fraction <<numerator, denominator>>.
Quotient(t) == <<t.toc - t.tic, t.num_iters>>

InitTime ==
    /\ pc = "idle"
    /\ path_rank_to_partition = <<>>
    /\ compiled = <<>>
    /\ mesh = 0
    /\ input_batch = <<>>
    /\ result = NoResult
    /\ \E n \in IterChoices : tc = TimeCallEntry(n)
    /\ dp = DpIdle

UnchangedByTime == UNCHANGED <<pc, path_rank_to_partition, compiled, mesh, input_batch, result, dp>>

\* fn() of the warmup statement.
WarmupCall ==
    /\ tc.pc = "warmup_call"
    /\ tc' = [TimeFn(tc) EXCEPT !.pc = "warmup_block"]
    /\ UnchangedByTime

\* .block_until_ready() of the warmup statement.
WarmupBlock ==
    /\ tc.pc = "warmup_block"
    /\ \E d \in Durations :
        tc' = [BlockUntilReady(tc, d) EXCEPT !.pc = "tic", !.warm = d]
    /\ UnchangedByTime

TakeTic ==
    /\ tc.pc = "tic"
    /\ tc' = [Tic(tc) EXCEPT !.pc = "loop"]
    /\ UnchangedByTime

\* fn() of the loop body.
LoopCall ==
    /\ tc.pc = "loop"
    /\ ~RangeExhausted(tc)
    /\ tc' = [TimeFn(tc) EXCEPT !.pc = "loop_block"]
    /\ UnchangedByTime

\* .block_until_ready() of the loop body, then the next item of the range.
LoopBlock ==
    /\ tc.pc = "loop_block"
    /\ \E d \in Durations :
        tc' = [BlockUntilReady(tc, d) EXCEPT !.pc = "loop", !.i = @ + 1, !.timed = @ + d]
    /\ UnchangedByTime

TakeToc ==
    /\ tc.pc = "loop"
    /\ RangeExhausted(tc)
    /\ tc' = [Toc(tc) EXCEPT !.pc = "return"]
    /\ UnchangedByTime

\* return (toc - tic) / num_iters
Return ==
    /\ tc.pc = "return"
    /\ tc' = IF tc.num_iters = 0
             THEN [tc EXCEPT !.pc = "ZeroDivisionError"]
             ELSE [tc EXCEPT !.pc = "done", !.ret = Some(Quotient(tc))]
    /\ UnchangedByTime

NextTime ==
    \/ WarmupCall
    \/ WarmupBlock
    \/ TakeTic
    \/ LoopCall
    \/ LoopBlock
    \/ TakeToc
    \/ Return

SpecTime == InitTime /\ [][NextTime]_vars

(***************************************************************************)
(* Claims about _time_call.                                                *)
(***************************************************************************)
TimeCallEnded == tc.pc \in {"done", "ZeroDivisionError"}

RECURSIVE TimedEvents(_)
TimedEvents(n) == IF n <= 0 THEN <<>> ELSE <<"call", "ready">> \o TimedEvents(n - 1)

\* One warmup call, ready before the timer starts; then n calls, each ready
\* before the next call and before the timer stops.
ExpectedLog(n) == <<"call", "ready", "tic">> \o TimedEvents(n) \o <<"toc">>

\* C5 as stated, for every num_iters: fn is called n + 1 times in the order
\* of ExpectedLog, and the call returns the time of the n timed calls over n.
C5_TimeCall ==
    TimeCallEnded =>
        /\ tc.pc = "done"
        /\ tc.calls = tc.num_iters + 1
        /\ tc.log = ExpectedLog(tc.num_iters)
        /\ tc.ret = Some(<<tc.timed, tc.num_iters>>)

\* C5 for num_iters >= 1: no computation is ever pending when fn is called
\* again or when the clock is read; once the call has ended it has returned,
\* fn was called n + 1 times in the order of ExpectedLog, and the value
\* returned is the summed duration of the n timed calls over n, the warmup's
\* duration not in it.
C5_TimeCall_Positive ==
    (tc.pc # "idle" /\ tc.num_iters >= 1) =>
        /\ tc.pending \in {0, 1}
        /\ (tc.pc \in {"warmup_call", "tic", "loop", "return"}) => tc.pending = 0
        /\ (tc.pc \in {"loop", "loop_block", "return", "done"}) =>
              tc.tic = tc.warm /\ tc.now = tc.warm + tc.timed
        /\ TimeCallEnded =>
              /\ tc.pc = "done"
              /\ tc.calls = tc.num_iters + 1
              /\ tc.log = ExpectedLog(tc.num_iters)
              /\ tc.ret = Some(<<tc.timed, tc.num_iters>>)
              /\ tc.toc - tc.tic = tc.timed

\* A call with num_iters = 2 that has returned: the warmup took 2, the two
\* timed calls took 3 together, and 3/2 is returned.
C5_Witness ==
    /\ tc.pc = "done"
    /\ tc.num_iters = 2
    /\ tc.calls = 3
    /\ tc.warm = 2
    /\ tc.timed = 3
    /\ tc.ret = Some(<<3, 2>>)

(***************************************************************************)
(* Input.__init__ and Input.dispatch_global_batch                          *)
(*                                                                         *)
(* A PartitionSpec is a sequence of entries, an entry the sequence of the  *)
(* mesh axis names it holds (jax.tree.leaves of the entry).  A leaf of a   *)
(* batch carries `constraints`, the specs constrain_batch_axis applied to  *)
(* it, and `partitioned`, the specs the input partitioner applied to it.   *)
(***************************************************************************)
PartitionSpecs == { <<>>, << <<"data">> >>, << <<"data", "expert">>, <<"model">> >> }

\* input_partition_spec(): the input is partitioned along all mesh axes.
InputPartitionSpec == << <<"data", "model">> >>

\* The keys of mesh.shape.
MeshAxisNames(m) == IF m = 0 THEN {} ELSE {"data", "model"}

\* Input partitioners: partition_by_path_rank over at most one rule.
PartitionerTables == {t \in RuleTables : Len(t) <= 1}

DLeaf(path, ndim, constraints, partitioned) ==
    [path |-> path, ndim |-> ndim, constraints |-> constraints, partitioned |-> partitioned]

\* A batch as it arrives from outside: no constraint on any leaf.
Fresh(batch) == [i \in 1..Len(batch) |-> DLeaf(batch[i].path, batch[i].ndim, <<>>, <<>>)]

\* `cfg.partition_spec or input_partition_spec()`: None and the empty
\* PartitionSpec are both falsy.
OrDefault(cfg_partition_spec) ==
    IF cfg_partition_spec = NoneVal \/ cfg_partition_spec[1] = <<>>
    THEN InputPartitionSpec ELSE cfg_partition_spec[1]

\* The fields __init__ sets.
InputFields(cfg_partition_spec, cfg_input_dispatcher, cfg_input_partitioner) ==
    [partition_spec |-> OrDefault(cfg_partition_spec),
     has_dispatcher |-> cfg_input_dispatcher,
     input_partitioner |-> cfg_input_partitioner]

\* mesh.shape[axis] raises KeyError for an axis of partition_spec[0] that the
\* mesh does not have.
BatchAxisKeyError(self, m) ==
    \E k \in 1..Len(self.partition_spec[1]) :
        self.partition_spec[1][k] \notin MeshAxisNames(m)

\* jax.tree.map(constrain_batch_axis, tree_paths(batch), batch)
ConstrainBatchAxis(self, m, batch) ==
    IF batch # <<>> /\ BatchAxisKeyError(self, m)
    THEN [status |-> "KeyError", batch |-> <<>>]
    ELSE [status |-> "ok",
          batch |-> [i \in 1..Len(batch) |->
                       [batch[i] EXCEPT !.constraints = Append(@, self.partition_spec)]]]

\* What input_dispatcher.physical_to_logical_batch and dispatch_input_batch
\* return: new arrays for the leaves they keep.
Dispatched(batch, keep) ==
    LET idx == SelectSeq([i \in 1..Len(batch) |-> i], LAMBDA i : i \in keep)
    IN  [k \in 1..Len(idx) |-> DLeaf(batch[idx[k]].path, batch[idx[k]].ndim, <<>>, <<>>)]

Raised(status, p2l, dib) ==
    [status |-> status, logical |-> <<>>, p2l_calls |-> p2l, dib_calls |-> dib]

\* `if self._input_partitioner is not None: ...` and the return.
Partitioned(self, m, batch, p2l, dib) ==
    IF self.input_partitioner = NoneVal
    THEN [status |-> "returned", logical |-> batch, p2l_calls |-> p2l, dib_calls |-> dib]
    ELSE LET r == FnBody(Compile(self.input_partitioner[1]), m, batch) IN
         IF r.status = "ValueError" THEN Raised("ValueError", p2l, dib)
         ELSE [status |-> "returned",
               logical |-> [i \in 1..Len(batch) |->
                              [batch[i] EXCEPT !.partitioned = r.batch[i].constraints]],
               p2l_calls |-> p2l, dib_calls |-> dib]

\* The jax.tree.map over the logical batch that follows either dispatch path.
\* The first definition is the slip of leaving it out.
LogicalLeftUnconstrained(self, m, logical) == [status |-> "ok", batch |-> logical]
ConstrainLogical(self, m, logical) == ConstrainBatchAxis(self, m, logical)

\* From the constraint of the logical batch to the return.
AfterDispatch(self, m, logical, p2l, dib) ==
    LET c == ConstrainLogical(self, m, logical) IN
    IF c.status # "ok" THEN Raised(c.status, p2l, dib)
    ELSE Partitioned(self, m, c.batch, p2l, dib)

\* The dispatch path with an input_dispatcher.
ViaDispatcher(self, m, physical, keep) ==
    LET c == ConstrainBatchAxis(self, m, physical) IN
    IF c.status # "ok" THEN Raised(c.status, <<>>, <<>>)
    ELSE AfterDispatch(self, m, Dispatched(c.batch, keep), <<c.batch>>, <<>>)

\* The dispatch path without one.
ViaDispatchInputBatch(self, m, physical, keep) ==
    AfterDispatch(self, m, Dispatched(physical, keep), <<>>,
                  << [arg |-> physical, batch_axis_names |-> self.partition_spec[1]] >>)

\* The body of dispatch_global_batch.
DispatchGlobalBatchBody(self, m, physical, keep) ==
    IF self.has_dispatcher
    THEN ViaDispatcher(self, m, physical, keep)
    ELSE ViaDispatchInputBatch(self, m, physical, keep)

InitDispatch ==
    /\ pc = "idle"
    /\ path_rank_to_partition = <<>>
    /\ compiled = <<>>
    /\ mesh = 0
    /\ input_batch = <<>>
    /\ result = NoResult
    /\ tc = TcIdle
    /\ dp = [pc |-> "new"]

UnchangedByDispatch ==
    UNCHANGED <<pc, path_rank_to_partition, compiled, input_batch, result, tc>>

\* Input.__init__(cfg)
InputInit ==
    /\ dp.pc = "new"
    /\ \E ps \in Opt(PartitionSpecs), disp \in BOOLEAN, part \in Opt(PartitionerTables) :
        dp' = [pc |-> "ready", self |-> InputFields(ps, disp, part)]
    /\ UNCHANGED mesh
    /\ UnchangedByDispatch

\* dispatch_global_batch(global_physical_batch) under a mesh of size m; `keep`
\* is the choice of the dispatch function outside this module.  The call
\* writes no field of self, so one call per behaviour covers every call.
DispatchGlobalBatch ==
    /\ dp.pc = "ready"
    /\ \E m \in MeshSizes, b \in Batches :
        \E keep \in (SUBSET (1..Len(b))) \ {{}} :
            /\ mesh' = m
            /\ dp' = [pc |-> "called", self |-> dp.self, physical |-> Fresh(b),
                      out |-> DispatchGlobalBatchBody(dp.self, m, Fresh(b), keep)]
    /\ UnchangedByDispatch

NextDispatch == InputInit \/ DispatchGlobalBatch

SpecDispatch == InitDispatch /\ [][NextDispatch]_vars

(***************************************************************************)
(* Claims about Input.dispatch_global_batch.                               *)
(***************************************************************************)
DispatchCalled == dp.pc = "called"

\* C6: a call takes one dispatch path.  With an input_dispatcher,
\* dispatch_input_batch is not called and physical_to_logical_batch gets the
\* physical batch with every leaf constrained by the partition spec; without
\* one, physical_to_logical_batch is not called and dispatch_input_batch gets
\* the physical batch as it came, with batch_axis_names the first entry of
\* the partition spec.  A call that returns has made exactly one of the two
\* calls, and has constrained every leaf of the logical batch by the
\* partition spec.
C6_OneDispatchPath ==
    DispatchCalled =>
        LET self == dp.self
            out == dp.out
        IN  /\ self.has_dispatcher =>
                /\ out.dib_calls = <<>>
                /\ Len(out.p2l_calls) <= 1
                /\ \A c \in 1..Len(out.p2l_calls) :
                      /\ Len(out.p2l_calls[c]) = Len(dp.physical)
                      /\ \A i \in 1..Len(dp.physical) :
                            out.p2l_calls[c][i] =
                                [dp.physical[i] EXCEPT !.constraints = <<self.partition_spec>>]
            /\ ~self.has_dispatcher =>
                /\ out.p2l_calls = <<>>
                /\ Len(out.dib_calls) <= 1
                /\ \A c \in 1..Len(out.dib_calls) :
                      /\ out.dib_calls[c].arg = dp.physical
                      /\ \A i \in 1..Len(dp.physical) : dp.physical[i].constraints = <<>>
                      /\ out.dib_calls[c].batch_axis_names = self.partition_spec[1]
            /\ out.status = "returned" =>
                /\ Len(out.p2l_calls) + Len(out.dib_calls) = 1
                /\ out.logical # <<>>
                /\ \A i \in 1..Len(out.logical) :
                      out.logical[i].constraints = <<self.partition_spec>>

\* A call with an input_dispatcher, inside a mesh, that returns a logical
\* batch of two leaves, both further constrained by the input partitioner.
C6_Witness ==
    /\ DispatchCalled
    /\ dp.self.has_dispatcher
    /\ dp.out.status = "returned"
    /\ Len(dp.out.p2l_calls) = 1
    /\ Len(dp.physical) = 2
    /\ Len(dp.out.logical) = 2
    /\ mesh = 2
    /\ dp.self.partition_spec = << <<"data">> >>
    /\ dp.out.logical[1].partitioned = <<"data">>
    /\ dp.out.logical[2].partitioned = <<"data">>

\* A call without an input_dispatcher that returns, dispatch_input_batch
\* having dropped a leaf.
C6_Reached_NoDispatcher ==
    /\ DispatchCalled
    /\ ~dp.self.has_dispatcher
    /\ dp.out.status = "returned"
    /\ Len(dp.out.dib_calls) = 1
    /\ dp.out.dib_calls[1].batch_axis_names = <<"data">>
    /\ Len(dp.physical) = 2
    /\ Len(dp.out.logical) = 1

\* A call that raises KeyError after dispatch_input_batch was called.
C6_Reached_KeyError ==
    /\ DispatchCalled
    /\ dp.out.status = "KeyError"
    /\ Len(dp.out.dib_calls) = 1

====
